---- MODULE Spec2Model ----
(***************************************************************************)
(* Model of src/index.js: the Telegram trading bot.  The state is the      *)
(* in-memory userStates map, the PouchDB credential store, the provider's  *)
(* wallets and trades, and one record per message handler in flight.  A    *)
(* handler is cut at its await points: each action is the completion of    *)
(* one awaited call followed by the synchronous code up to the next await. *)
(* Spec is the bot under bot.start(), SpecTwoUsers the same with every     *)
(* user talking, SpecConcurrent the handlers of one user interleaved, and  *)
(* SpecCodec the encrypt/decrypt pair on its own.                          *)
(***************************************************************************)
EXTENDS Integers, Sequences, FiniteSets, TLC

\* ------------------------------------------------------------------ bounds
NumUsers == 2       \* chat users the transport knows
MaxTasks == 2       \* message handlers in flight at the same time
MaxMsgs == 4        \* inbound updates a user sends in one run
MaxWallets == 2     \* wallets the provider creates in one run
MaxAmount == 1      \* largest amount a user types
MaxBalance == 1     \* largest balance the provider reports
MaxLen == 2         \* longest plaintext handed to the codec on its own

Users == 1..NumUsers
Slots == 1..MaxTasks

\* ------------------------------------------------------------ text inputs
AmountTexts == {ToString(n) : n \in (-1)..MaxAmount} \cup {"NaN"}
Texts == {"Buy", "Sell", "Check Balance", "Deposit", "eth", "ETH", "pepe"} \cup AmountTexts

\* String.prototype.toLowerCase on the texts above
toLowerCase(t) ==
  CASE t = "Buy" -> "buy"
    [] t = "Sell" -> "sell"
    [] t = "Check Balance" -> "check balance"
    [] t = "Deposit" -> "deposit"
    [] t = "ETH" -> "eth"
    [] t = "NaN" -> "nan"
    [] OTHER -> t

\* new Decimal(text): throws on a text that is no number; "NaN" is accepted
DecimalThrows(t) == t \notin AmountTexts
Decimal(t) ==
  IF t = "NaN" THEN [nan |-> TRUE, val |-> 0]
  ELSE [nan |-> FALSE, val |-> CHOOSE n \in (-1)..MaxAmount : ToString(n) = t]
isNaN(a) == a.nan
\* Decimal.greaterThan: false whenever an operand is NaN
greaterThan(a, b) == ~a.nan /\ a.val > b
NoAmount == [nan |-> TRUE, val |-> 0]

Eth == "eth"    \* Coinbase.assets.Eth

\* ------------------------------------------------------- conversation state
NoAddr == 0
EmptyState == [buyRequested |-> FALSE, sellRequested |-> FALSE, step |-> "none",
               asset |-> "none", address |-> NoAddr, lastMessageId |-> 0]
Fields == DOMAIN EmptyState

getUserState(st, u) == st[u]
\* an update that writes the new fields over an empty state, not the current one
updateUserStateOverEmpty(st, u, newState) ==
  [st EXCEPT ![u] = [f \in Fields |-> IF f \in DOMAIN newState THEN newState[f] ELSE EmptyState[f]]]
updateUserState(st, u, newState) ==
  [st EXCEPT ![u] = [f \in Fields |-> IF f \in DOMAIN newState THEN newState[f] ELSE @[f]]]
\* a clear that resets the flags and the step but forgets the asset
clearUserStateKeepsAsset(st, u) ==
  [st EXCEPT ![u].buyRequested = FALSE, ![u].sellRequested = FALSE, ![u].step = "none"]
clearUserState(st, u) == [st EXCEPT ![u] = EmptyState]

\* the three states of the flow, read off the flags as the handlers read them
Idle(s) == ~s.buyRequested /\ ~s.sellRequested /\ s.step = "none" /\ s.asset = "none"
InFlow(s) == s.buyRequested \/ s.sellRequested
AwaitingAsset(s) == InFlow(s) /\ s.asset = "none"
AwaitingAmount(s) == InFlow(s) /\ s.asset # "none"
TypeOf(s) == IF s.buyRequested THEN "buy" ELSE "sell"

\* ------------------------------------------------------------ secret codec
MaxWalletId == NumUsers + MaxWallets   \* ids 1..NumUsers exist before the run
Pad == 0
Brace == MaxWalletId + 1
Surrogate == MaxWalletId + 2     \* an unpaired UTF-16 surrogate
Replacement == MaxWalletId + 3   \* U+FFFD
Modulus == MaxWalletId + 4
EncryptionKey == 1
IVs == 0..1

\* JSON.stringify(wallet.export()) and JSON.parse, on a wallet export
Stringify(w) == <<Brace, w, Brace>>
ParseThrows(p) == ~(Len(p) = 3 /\ p[1] = Brace /\ p[3] = Brace /\ p[2] \in 1..MaxWalletId)
Parse(p) == p[2]

\* iv.toString("hex") and Buffer.from(ivString, "hex")
toHex(iv) == ToString(iv)
fromHex(s) == CHOOSE iv \in 0..(Modulus - 1) : ToString(iv) = s

\* the "utf8" input encoding of cipher.update and the "utf8" output encoding of
\* decipher.update: an unpaired surrogate has no UTF-8 form and is encoded as U+FFFD
utf8Encode(text) ==
  [k \in DOMAIN text |-> IF text[k] = Surrogate THEN Replacement ELSE text[k]]
utf8Decode(bytes) == bytes
\* the "hex" output encoding of cipher.update and the "hex" input encoding of
\* decipher.update
hexEncode(bytes) == [k \in DOMAIN bytes |-> toHex(bytes[k])]
hexDecode(hex) == [k \in DOMAIN hex |-> fromHex(hex[k])]

\* aes-256-cbc over one-symbol blocks: each block is chained to the previous
\* cipher block (the iv first) and the last block is padding
RECURSIVE cbcEncrypt(_, _, _)
cbcEncrypt(key, p, prev) ==
  IF p = <<>> THEN <<>>
  ELSE LET c == (p[1] + prev + key) % Modulus
       IN <<c>> \o cbcEncrypt(key, Tail(p), c)
\* a decipher that chains no block: every block is taken against the iv
cbcDecryptUnchained(key, c, prev) ==
  [k \in DOMAIN c |-> (c[k] - prev - key) % Modulus]
RECURSIVE cbcDecrypt(_, _, _)
cbcDecrypt(key, c, prev) ==
  IF c = <<>> THEN <<>>
  ELSE <<(c[1] - prev - key) % Modulus>> \o cbcDecrypt(key, Tail(c), c[1])

encryptWith(key, text, iv) == hexEncode(cbcEncrypt(key, utf8Encode(text) \o <<Pad>>, iv))
encrypt(text, iv) == encryptWith(EncryptionKey, text, iv)
\* decipher.final throws when the last block is no padding
decryptThrows(encrypted, iv) ==
  LET p == cbcDecrypt(EncryptionKey, hexDecode(encrypted), iv)
  IN p = <<>> \/ p[Len(p)] # Pad
decrypt(encrypted, iv) ==
  LET p == cbcDecrypt(EncryptionKey, hexDecode(encrypted), iv)
  IN utf8Decode(SubSeq(p, 1, Len(p) - 1))

\* --------------------------------------------------------- credential store
NoDoc == [ivString |-> "none", encryptedWalletData |-> <<>>]
\* a put that stores the export of another wallet than the one returned
DocOfOtherWallet(w, iv) ==
  [ivString |-> toHex(iv), encryptedWalletData |-> encrypt(Stringify(1), iv)]
Doc(w, iv) == [ivString |-> toHex(iv), encryptedWalletData |-> encrypt(Stringify(w), iv)]
\* records a previous run of the process may have left for user u: a good
\* one, one written under another ENCRYPTION_KEY, one that is no wallet export
PriorDocs(u) ==
  {NoDoc, Doc(u, 0),
   [ivString |-> toHex(0), encryptedWalletData |-> encryptWith(EncryptionKey + 1, Stringify(u), 0)],
   [ivString |-> toHex(0), encryptedWalletData |-> encrypt(<<u>>, 0)]}

\* errors as the catch of getOrCreateAddress sees them
NotFoundError == [name |-> "not_found", status |-> 404]
StoreError == [name |-> "unknown_error", status |-> 500]
ConflictError == [name |-> "conflict", status |-> 409]
CipherError == [name |-> "Error", status |-> 0]
SyntaxError == [name |-> "SyntaxError", status |-> 0]
ProviderError == [name |-> "APIError", status |-> 0]
\* a catch that creates a wallet on any error
isNotFoundAny(error) == error.status >= 0
\* a catch that takes every store failure for a missing record
isNotFoundOrWorse(error) == error.name = "not_found" \/ error.status >= 404
isNotFound(error) == error.name = "not_found" \/ error.status = 404
\* a store whose put replaces the record that is there
putNeverConflicts(doc) == FALSE
\* db.put of a record without _rev: refused (409) when the id has a record
putConflicts(doc) == doc # NoDoc

DefaultAddress(w) == w


\* ------------------------------------------------------------------- state
VARIABLES
  encKey,      \* process.env.ENCRYPTION_KEY: "valid" or "malformed"
  userStates,  \* userStates: user -> conversation state ({} is EmptyState)
  db,          \* the PouchDB store: user -> record, or NoDoc
  created,     \* the highest wallet id the provider has issued
  trades,      \* the trade intents createTrade was called with
  tasks,       \* the handlers in flight, one record per slot
  budget,      \* user -> inbound updates the user still sends in this run
  limit,       \* how many handlers the transport runs at the same time
  returned,    \* user -> the address getOrCreateAddress last returned
  flow,        \* user -> "none", "open" (a Buy/Sell was accepted), "ended" (its state
               \* was cleared) or "reopened" (a Buy/Sell was accepted after that)
  gen,         \* user -> how many Buy/Sell commands have started a flow
  submitted,   \* user -> createTrade calls since the state was last without a flow
  codec        \* a plaintext on its way through encrypt and decrypt

vars == <<encKey, userStates, db, created, trades, tasks, budget, limit, returned, flow,
          gen, submitted, codec>>

\* a handler's locals, plus a record of what it has done so far
Free == [pc |-> "free", user |-> 0, text |-> "", us |-> EmptyState, caller |-> "none",
         amount |-> NoAmount, userAddress |-> NoAddr, wallet |-> 0, doc |-> NoDoc,
         balance |-> -1, sent |-> {}, ntrades |-> 0, read |-> "none",
         reads |-> 0, madeWallet |-> FALSE, wrote |-> FALSE, prior |-> NoAddr,
         outcome |-> "none", gen |-> 0]

\* no plaintext is in the codec
NoText == [pc |-> "none", text |-> <<>>, iv |-> 0, encrypted |-> <<>>, decrypted |-> <<>>]

\* the state after construction (lines 25-37); the store is what earlier runs left
StartAt(states, updates, handlers) ==
  /\ encKey \in {"valid", "malformed"}
  /\ userStates = states
  /\ db \in [Users -> UNION {PriorDocs(u) : u \in Users}]
  /\ \A u \in Users : db[u] \in IF updates[u] > 0 THEN PriorDocs(u) ELSE {NoDoc}
  \* a cached address is the address of the wallet in the user's record
  /\ \A u \in Users : states[u].address # NoAddr =>
        (encKey = "valid" /\ db[u] = Doc(u, 0) /\ states[u].address = DefaultAddress(u))
  /\ created = NumUsers
  /\ trades = {}
  /\ tasks = [i \in Slots |-> Free]
  /\ budget = updates
  /\ limit = handlers
  /\ returned = [u \in Users |-> states[u].address]
  /\ flow = [u \in Users |-> IF InFlow(states[u]) THEN "open" ELSE "none"]
  /\ gen = [u \in Users |-> IF InFlow(states[u]) THEN 1 ELSE 0]
  /\ submitted = [u \in Users |-> 0]
Start(updates, handlers) == StartAt([u \in Users |-> EmptyState], updates, handlers)

\* bot.start(): long polling hands the updates to the handlers one at a time,
\* each awaited before the next is taken.  One user talks to the bot: users
\* share no state, userStates and the store being keyed by user.id.
Init ==
  /\ \E u \in Users : Start([v \in Users |-> IF v = u THEN MaxMsgs ELSE 0], 1)
  /\ codec = NoText

\* the lowest free slot takes the next update
FreeSlot(i) ==
  /\ i <= limit
  /\ tasks[i].pc = "free"
  /\ \A j \in Slots : j < i => tasks[j].pc # "free"

\* ctx.reply was called with the reply `tag` (delivered or not)
Said(t, tag) == [t EXCEPT !.sent = @ \cup {tag}]

\* a flow is open once a Buy/Sell was accepted and ended once its state is cleared
flowAfter(u, st) ==
  IF InFlow(st[u])
    THEN IF flow[u] \in {"ended", "reopened"} THEN "reopened" ELSE "open"
    ELSE IF InFlow(userStates[u]) THEN "ended" ELSE flow[u]

\* the bookkeeping of a step of task t that leaves the states st
Recorded(i, t, st) ==
  LET u == t.user
  IN /\ userStates' = st
     /\ flow' = [flow EXCEPT ![u] = flowAfter(u, st)]
     /\ gen' = [gen EXCEPT ![u] = IF InFlow(st[u]) /\ ~InFlow(userStates[u]) THEN @ + 1 ELSE @]
     /\ submitted' = [submitted EXCEPT ![u] = IF InFlow(st[u])
                                                THEN @ + (t.ntrades - tasks[i].ntrades)
                                                ELSE 0]
     /\ codec' = codec

\* the handler of task t returns, or its error reaches bot.catch
Finish(i, t, st) ==
  /\ tasks' = [tasks EXCEPT ![i] = Free]
  /\ Recorded(i, t, st)

Continue(i, t, st) ==
  /\ tasks' = [tasks EXCEPT ![i] = t]
  /\ Recorded(i, t, st)

\* sendReply after its ctx.reply resolved: the reply is tracked in the state
sendReplyTrack(st, u) == updateUserState(st, u, [lastMessageId |-> 1])

\* getOrCreateAddress returns / throws into its caller
ReturnPc(caller) ==
  CASE caller = "trade" -> "getBalance"
    [] caller = "balance" -> "listBalances"
    [] caller = "deposit" -> "depositNote"
    [] caller = "start" -> "welcome"
ThrowPc(caller) ==
  CASE caller = "trade" -> "executeTradeCatch"
    [] caller = "balance" -> "balanceCatch"
    [] caller = "deposit" -> "depositCatch"
    [] caller = "start" -> "startCatch"
Return(t, address) ==
  [t EXCEPT !.pc = ReturnPc(t.caller), !.userAddress = address, !.outcome = "returned"]
Throw(t) == [t EXCEPT !.pc = ThrowPc(t.caller), !.outcome = "threw"]

\* getOrCreateAddress up to its first await: the cache check
getOrCreateAddress(t, caller, st) ==
  LET c == [t EXCEPT !.caller = caller, !.prior = returned[t.user]]
      cachedState == getUserState(st, t.user)
  IN IF cachedState.address # NoAddr
       THEN Return(c, cachedState.address)
       ELSE [c EXCEPT !.pc = "dbGet"]

\* the address a call served from the cache returned, recorded as returned
servedFromCache(t) ==
  IF t.outcome = "returned" THEN [returned EXCEPT ![t.user] = t.userAddress] ELSE returned

\* executeTrade up to its first await; the result is the task and the new states
executeTrade(t, type, st) ==
  LET u == t.user
      userState == t.us
  IN IF userState.asset = "none"
       THEN IF toLowerCase(t.text) = "eth" /\ type = "sell"
              THEN [t |-> [t EXCEPT !.pc = "rejectEth"], st |-> st]
              ELSE [t |-> [t EXCEPT !.pc = "askAmount"],
                    st |-> updateUserState(st, u, [asset |-> toLowerCase(t.text),
                                                   step |-> "amount"])]
       ELSE IF DecimalThrows(t.text)
              THEN [t |-> [t EXCEPT !.pc = "executeTradeCatch"], st |-> st]
              ELSE [t |-> getOrCreateAddress([t EXCEPT !.amount = Decimal(t.text)], "trade", st),
                    st |-> st]

\* a Buy that asks for the asset and forgets to set the operation
handleInitialBuyNoFlag(t, st) ==
  [t |-> [t EXCEPT !.pc = "askAsset"], st |-> updateUserState(st, t.user, [step |-> "asset"])]
handleInitialBuy(t, st) ==
  [t |-> [t EXCEPT !.pc = "askAsset"],
   st |-> updateUserState(st, t.user, [buyRequested |-> TRUE, step |-> "asset"])]
handleInitialSell(t, st) ==
  [t |-> [t EXCEPT !.pc = "askAsset"],
   st |-> updateUserState(st, t.user, [sellRequested |-> TRUE, step |-> "asset"])]

\* a handler that takes only a Sell for an ongoing operation
ongoingSellOnly(userState) == userState.sellRequested
\* the test for an ongoing operation
ongoing(userState) == userState.buyRequested \/ userState.sellRequested

\* bot.on("message:text") up to its first await
MessageText(u, text) ==
  /\ budget[u] > 0
  /\ \E i \in Slots :
       /\ FreeSlot(i)
       /\ LET userState == getUserState(userStates, u)
              t == [Free EXCEPT !.user = u, !.text = text, !.us = userState, !.gen = gen[u]]
              r == IF ongoing(userState)
                     THEN executeTrade(t, TypeOf(userState), userStates)
                     ELSE CASE text = "Check Balance" ->
                                 [t |-> getOrCreateAddress(t, "balance", userStates), st |-> userStates]
                            [] text = "Deposit" ->
                                 [t |-> getOrCreateAddress(t, "deposit", userStates), st |-> userStates]
                            [] text = "Buy" -> handleInitialBuy(t, userStates)
                            [] text = "Sell" -> handleInitialSell(t, userStates)
                            [] OTHER -> [t |-> [t EXCEPT !.pc = "menu"], st |-> userStates]
          IN /\ Continue(i, r.t, r.st)
             /\ returned' = servedFromCache(r.t)
  /\ budget' = [budget EXCEPT ![u] = @ - 1]
  /\ UNCHANGED <<encKey, db, created, trades, limit>>

\* bot.command("start") up to its first await
CommandStart(u) ==
  /\ budget[u] > 0
  /\ \E i \in Slots :
       /\ FreeSlot(i)
       /\ LET t == [Free EXCEPT !.user = u, !.text = "/start", !.us = getUserState(userStates, u),
                              !.gen = gen[u]]
              c == getOrCreateAddress(t, "start", userStates)
          IN /\ Continue(i, c, userStates)
             /\ returned' = servedFromCache(c)
  /\ budget' = [budget EXCEPT ![u] = @ - 1]
  /\ UNCHANGED <<encKey, db, created, trades, limit>>


\* ------------------------------------------------- getOrCreateAddress steps
Running(i, pc) == tasks[i].pc = pc
Same == UNCHANGED <<encKey, db, created, trades, budget, limit, returned>>

\* await db.get(user.id.toString()), then decrypt and JSON.parse of the record
DbGet(i) ==
  /\ Running(i, "dbGet")
  /\ LET t == [tasks[i] EXCEPT !.reads = @ + 1]
         u == t.user
         \* the catch of the inner try: create on not-found, rethrow the rest
         caught(error, what) ==
           IF isNotFound(error)
             THEN [t EXCEPT !.pc = "walletCreate", !.read = what]
             ELSE Throw([t EXCEPT !.read = what])
     IN \/ /\ db[u] = NoDoc
           /\ Continue(i, caught(NotFoundError, "not_found"), userStates)
        \/ Continue(i, caught(StoreError, "store_error"), userStates)
        \/ /\ db[u] # NoDoc
           /\ LET iv == fromHex(db[u].ivString)
                  data == db[u].encryptedWalletData
              IN IF encKey # "valid" \/ decryptThrows(data, iv)
                   THEN Continue(i, caught(CipherError, "decrypt_error"), userStates)
                   ELSE IF ParseThrows(decrypt(data, iv))
                          THEN Continue(i, caught(SyntaxError, "parse_error"), userStates)
                          ELSE Continue(i, [t EXCEPT !.pc = "walletImport", !.read = "found",
                                                     !.wallet = Parse(decrypt(data, iv))],
                                        userStates)
  /\ Same

\* the tail of getOrCreateAddress: the address is cached and returned
gotWallet(i, t, wallet) ==
  LET address == DefaultAddress(wallet)
  IN /\ Continue(i, Return(t, address), updateUserState(userStates, t.user, [address |-> address]))
     /\ returned' = [returned EXCEPT ![t.user] = address]

\* await Wallet.import(walletData)
WalletImport(i) ==
  /\ Running(i, "walletImport")
  /\ LET t == tasks[i]
     IN \/ /\ t.wallet <= created
           /\ gotWallet(i, t, t.wallet)
        \/ /\ Continue(i, IF isNotFound(ProviderError)
                            THEN [t EXCEPT !.pc = "walletCreate", !.read = "import_error"]
                            ELSE Throw([t EXCEPT !.read = "import_error"]),
                       userStates)
           /\ returned' = returned
  /\ UNCHANGED <<encKey, db, created, trades, budget, limit>>

\* await Wallet.create(...), then the iv and encrypt of the export
WalletCreate(i) ==
  /\ Running(i, "walletCreate")
  /\ LET t == tasks[i]
     IN \/ /\ created < MaxWalletId
           /\ created' = created + 1
           /\ \E iv \in IVs :
                LET w == created + 1
                    m == [t EXCEPT !.wallet = w, !.madeWallet = TRUE]
                IN IF encKey # "valid"
                     THEN Continue(i, Throw(m), userStates)
                     ELSE Continue(i, [m EXCEPT !.pc = "dbPut", !.doc = Doc(w, iv)], userStates)
        \/ /\ Continue(i, Throw(t), userStates)
           /\ created' = created
  /\ UNCHANGED <<encKey, db, trades, budget, limit, returned>>

\* await db.put(...): PouchDB refuses a put without _rev on an existing record
DbPut(i) ==
  /\ Running(i, "dbPut")
  /\ LET t == tasks[i]
     IN \/ /\ ~putConflicts(db[t.user])
           /\ db' = [db EXCEPT ![t.user] = t.doc]
           /\ gotWallet(i, [t EXCEPT !.wrote = TRUE], t.wallet)
        \/ /\ Continue(i, Throw(t), userStates)
           /\ UNCHANGED <<db, returned>>
  /\ UNCHANGED <<encKey, created, trades, budget, limit>>

\* ----------------------------------------------------- executeTrade steps
\* await userAddress.getBalance(...), then the amount check
GetBalance(i) ==
  /\ Running(i, "getBalance")
  /\ LET t == tasks[i]
     IN \/ \E currentBalance \in 0..MaxBalance :
             Continue(i, [t EXCEPT !.balance = currentBalance,
                                   !.pc = IF isNaN(t.amount) \/ greaterThan(t.amount, currentBalance)
                                            THEN "rejectAmount" ELSE "initiating"],
                      userStates)
        \/ Continue(i, [t EXCEPT !.pc = "executeTradeCatch"], userStates)
  /\ Same

\* await ctx.reply("Invalid amount or insufficient balance..."); clearUserState
RejectAmount(i) ==
  /\ Running(i, "rejectAmount")
  /\ LET t == tasks[i]
     IN \/ Finish(i, Said(t, "rejectAmount"), clearUserState(userStates, t.user))
        \/ Continue(i, [Said(t, "rejectAmount") EXCEPT !.pc = "executeTradeCatch"], userStates)
  /\ Same

\* await ctx.reply("You cannot sell ETH..."); clearUserState
RejectEth(i) ==
  /\ Running(i, "rejectEth")
  /\ LET t == tasks[i]
     IN \/ Finish(i, Said(t, "rejectEth"), clearUserState(userStates, t.user))
        \/ Continue(i, [Said(t, "rejectEth") EXCEPT !.pc = "executeTradeCatch"], userStates)
  /\ Same

\* await sendReply(ctx, prompt for the amount)
AskAmount(i) ==
  /\ Running(i, "askAmount")
  /\ LET t == tasks[i]
     IN \/ Finish(i, Said(t, "askAmount"), sendReplyTrack(userStates, t.user))
        \/ Continue(i, [Said(t, "askAmount") EXCEPT !.pc = "executeTradeCatch"], userStates)
  /\ Same

\* await sendReply(ctx, `Initiating ${type}...`)
Initiating(i) ==
  /\ Running(i, "initiating")
  /\ LET t == tasks[i]
     IN \/ Continue(i, [Said(t, "initiating") EXCEPT !.pc = "createTrade"],
                    sendReplyTrack(userStates, t.user))
        \/ Continue(i, [Said(t, "initiating") EXCEPT !.pc = "executeTradeCatch"], userStates)
  /\ Same

\* the intent executeTrade builds from the snapshot of the state
tradeType(type, userState) ==
  IF type = "buy"
    THEN [fromAssetId |-> Eth, toAssetId |-> userState.asset]
    ELSE [fromAssetId |-> userState.asset, toAssetId |-> Eth]
TradeIntent(t) ==
  LET tt == tradeType(TypeOf(t.us), t.us)
  IN [user |-> t.user, amount |-> t.amount,
      fromAssetId |-> tt.fromAssetId, toAssetId |-> tt.toAssetId]

\* await userAddress.createTrade({ amount, ...tradeType })
CreateTrade(i) ==
  /\ Running(i, "createTrade")
  /\ LET t == [tasks[i] EXCEPT !.ntrades = @ + 1]
     IN /\ trades' = trades \cup {TradeIntent(t)}
        /\ \/ Continue(i, [t EXCEPT !.pc = "tradeWait"], userStates)
           \/ Continue(i, [t EXCEPT !.pc = "tradeError"], userStates)
  /\ UNCHANGED <<encKey, db, created, budget, limit, returned>>

\* await trade.wait()
TradeWait(i) ==
  /\ Running(i, "tradeWait")
  /\ \/ Continue(i, [tasks[i] EXCEPT !.pc = "tradeSuccess"], userStates)
     \/ Continue(i, [tasks[i] EXCEPT !.pc = "tradeError"], userStates)
  /\ Same

\* await sendReply(ctx, `Successfully completed ...`); clearUserState
TradeSuccess(i) ==
  /\ Running(i, "tradeSuccess")
  /\ LET t == tasks[i]
     IN \/ Finish(i, Said(t, "success"),
                  clearUserState(sendReplyTrack(userStates, t.user), t.user))
        \/ Continue(i, [Said(t, "success") EXCEPT !.pc = "tradeError"], userStates)
  /\ Same

\* the inner catch: await ctx.reply(`An error occurred while executing...`); clearUserState
TradeError(i) ==
  /\ Running(i, "tradeError")
  /\ LET t == tasks[i]
     IN \/ Finish(i, Said(t, "tradeError"), clearUserState(userStates, t.user))
        \/ Continue(i, [Said(t, "tradeError") EXCEPT !.pc = "executeTradeCatch"], userStates)
  /\ Same

\* the outer catch: await ctx.reply("An error occurred. Please try again."); clearUserState
ExecuteTradeCatch(i) ==
  /\ Running(i, "executeTradeCatch")
  /\ LET t == tasks[i]
     IN \/ Finish(i, Said(t, "tryAgain"), clearUserState(userStates, t.user))
        \/ Continue(i, [Said(t, "tryAgain") EXCEPT !.pc = "messageCatch"], userStates)
  /\ Same


\* ------------------------------------------------------- the other handlers
\* handleInitialBuy / handleInitialSell: await sendReply(ctx, prompt for the asset)
AskAsset(i) ==
  /\ Running(i, "askAsset")
  /\ LET t == tasks[i]
     IN \/ Finish(i, Said(t, "askAsset"), sendReplyTrack(userStates, t.user))
        \/ Continue(i, [Said(t, "askAsset") EXCEPT !.pc = "messageCatch"], userStates)
  /\ Same

\* handleCheckBalance: await userAddress.listBalances()
ListBalances(i) ==
  /\ Running(i, "listBalances")
  /\ \/ Continue(i, [tasks[i] EXCEPT !.pc = "balances"], userStates)
     \/ Continue(i, [tasks[i] EXCEPT !.pc = "balanceCatch"], userStates)
  /\ Same

\* handleCheckBalance: await sendReply(ctx, balances)
Balances(i) ==
  /\ Running(i, "balances")
  /\ LET t == tasks[i]
     IN \/ Finish(i, Said(t, "balances"), sendReplyTrack(userStates, t.user))
        \/ Continue(i, [Said(t, "balances") EXCEPT !.pc = "balanceCatch"], userStates)
  /\ Same

\* handleCheckBalance's catch: await ctx.reply("Error checking balance...")
BalanceCatch(i) ==
  /\ Running(i, "balanceCatch")
  /\ LET t == tasks[i]
     IN \/ Finish(i, Said(t, "balanceError"), userStates)
        \/ Continue(i, [Said(t, "balanceError") EXCEPT !.pc = "messageCatch"], userStates)
  /\ Same

\* handleDeposit: its three sendReply calls, one after the other
Deposit(i) ==
  /\ tasks[i].pc \in {"depositNote", "depositPrompt", "depositAddress"}
  /\ LET t == tasks[i]
         st == sendReplyTrack(userStates, t.user)
     IN \/ CASE t.pc = "depositNote" ->
                  Continue(i, [Said(t, "depositNote") EXCEPT !.pc = "depositPrompt"], st)
             [] t.pc = "depositPrompt" ->
                  Continue(i, [Said(t, "depositPrompt") EXCEPT !.pc = "depositAddress"], st)
             [] t.pc = "depositAddress" ->
                  Finish(i, Said(t, "depositAddress"), st)
        \/ Continue(i, [Said(t, t.pc) EXCEPT !.pc = "depositCatch"], userStates)
  /\ Same

\* handleDeposit's catch: await ctx.reply("Error generating deposit address...")
DepositCatch(i) ==
  /\ Running(i, "depositCatch")
  /\ LET t == tasks[i]
     IN \/ Finish(i, Said(t, "depositError"), userStates)
        \/ Continue(i, [Said(t, "depositError") EXCEPT !.pc = "messageCatch"], userStates)
  /\ Same

\* bot.catch: error.ctx.reply(...) is called and not awaited; no state is touched
botCatch(t) == [t EXCEPT !.sent = @ \cup {"botCatch"}]

\* "Help", "Settings" and the default case: await ctx.reply(...)
Menu(i) ==
  /\ Running(i, "menu")
  /\ LET t == tasks[i]
     IN \/ Finish(i, Said(t, "menu"), userStates)
        \/ Continue(i, [Said(t, "menu") EXCEPT !.pc = "messageCatch"], userStates)
  /\ Same

\* the catch of bot.on("message:text"): await ctx.reply(...); clearUserState.
\* A failing reply leaves the handler through bot.catch.
MessageCatch(i) ==
  /\ Running(i, "messageCatch")
  /\ LET t == tasks[i]
     IN \/ Finish(i, Said(t, "generic"), clearUserState(userStates, t.user))
        \/ Finish(i, botCatch(Said(t, "generic")), userStates)
  /\ Same

\* bot.command("start"): await ctx.reply(welcomeMessage, ...)
Welcome(i) ==
  /\ Running(i, "welcome")
  /\ LET t == tasks[i]
     IN \/ Finish(i, Said(t, "welcome"), userStates)
        \/ Continue(i, [Said(t, "welcome") EXCEPT !.pc = "startCatch"], userStates)
  /\ Same

\* the catch of bot.command("start"): await ctx.reply(...); a failure reaches bot.catch
StartCatch(i) ==
  /\ Running(i, "startCatch")
  /\ LET t == tasks[i]
     IN \/ Finish(i, Said(t, "startError"), userStates)
        \/ Finish(i, botCatch(Said(t, "startError")), userStates)
  /\ Same

\* ------------------------------------------------------------ specification
Next ==
  \/ \E u \in Users, text \in Texts : MessageText(u, text)
  \/ \E u \in Users : CommandStart(u)
  \/ \E i \in Slots : DbGet(i)
  \/ \E i \in Slots : WalletImport(i)
  \/ \E i \in Slots : WalletCreate(i)
  \/ \E i \in Slots : DbPut(i)
  \/ \E i \in Slots : GetBalance(i)
  \/ \E i \in Slots : RejectAmount(i)
  \/ \E i \in Slots : RejectEth(i)
  \/ \E i \in Slots : AskAmount(i)
  \/ \E i \in Slots : Initiating(i)
  \/ \E i \in Slots : CreateTrade(i)
  \/ \E i \in Slots : TradeWait(i)
  \/ \E i \in Slots : TradeSuccess(i)
  \/ \E i \in Slots : TradeError(i)
  \/ \E i \in Slots : ExecuteTradeCatch(i)
  \/ \E i \in Slots : AskAsset(i)
  \/ \E i \in Slots : ListBalances(i)
  \/ \E i \in Slots : Balances(i)
  \/ \E i \in Slots : BalanceCatch(i)
  \/ \E i \in Slots : Deposit(i)
  \/ \E i \in Slots : DepositCatch(i)
  \/ \E i \in Slots : Menu(i)
  \/ \E i \in Slots : MessageCatch(i)
  \/ \E i \in Slots : Welcome(i)
  \/ \E i \in Slots : StartCatch(i)

Spec == Init /\ [][Next]_vars

\* The handlers on a transport that takes the next update while an earlier
\* handler is suspended at an await, as when updates arrive by webhook: the
\* handlers of one user interleave at their await points.  The run starts with
\* no conversation, in the conversation that "Buy", "pepe" leaves, or in the
\* one that "/start", "Buy", "pepe" leaves, which has the address cached.
MidFlow(address) ==
  [EmptyState EXCEPT !.buyRequested = TRUE, !.step = "amount", !.asset = "pepe",
                     !.address = address, !.lastMessageId = 1]
InitConcurrent ==
  /\ \E u \in Users :
       \E s \in {EmptyState, MidFlow(NoAddr), MidFlow(DefaultAddress(u))} :
         StartAt([v \in Users |-> IF v = u THEN s ELSE EmptyState],
                 [v \in Users |-> IF v # u THEN 0
                                   ELSE IF s.address # NoAddr THEN MaxMsgs - 1 ELSE MaxMsgs - 2],
                 MaxTasks)
  /\ codec = NoText
SpecConcurrent == InitConcurrent /\ [][Next]_vars

\* bot.start() with every user talking to the bot: one of them has the
\* conversation of "/start", "Buy", "pepe" behind them
InitTwoUsers ==
  /\ \E u \in Users :
       StartAt([v \in Users |-> IF v = u THEN MidFlow(DefaultAddress(u)) ELSE EmptyState],
               [v \in Users |-> MaxMsgs - 2], 1)
  /\ codec = NoText
SpecTwoUsers == InitTwoUsers /\ [][Next]_vars

\* ------------------------------------------------------ the codec on its own
\* encrypt and decrypt applied to any short text and any nonce
Plaintexts == UNION {[1..n -> 0..(Modulus - 1)] : n \in 0..MaxLen}
Nonces == 0..(Modulus - 1)
InitCodec ==
  /\ Start([u \in Users |-> 0], 1)
  /\ \E text \in Plaintexts, iv \in Nonces :
       codec = [NoText EXCEPT !.pc = "plain", !.text = text, !.iv = iv]

\* encrypt(text, iv): createCipheriv throws on a key of the wrong length
Encrypt ==
  /\ codec.pc = "plain"
  /\ codec' = IF encKey # "valid"
               THEN [codec EXCEPT !.pc = "threw"]
               ELSE [codec EXCEPT !.pc = "encrypted", !.encrypted = encrypt(codec.text, codec.iv)]
  /\ UNCHANGED <<encKey, userStates, db, created, trades, tasks, budget, limit, returned,
                 flow, gen, submitted>>

\* decrypt(encrypted, iv)
Decrypt ==
  /\ codec.pc = "encrypted"
  /\ codec' = IF encKey # "valid" \/ decryptThrows(codec.encrypted, codec.iv)
               THEN [codec EXCEPT !.pc = "threw"]
               ELSE [codec EXCEPT !.pc = "decrypted",
                                  !.decrypted = decrypt(codec.encrypted, codec.iv)]
  /\ UNCHANGED <<encKey, userStates, db, created, trades, tasks, budget, limit, returned,
                 flow, gen, submitted>>

NextCodec == Encrypt \/ Decrypt
SpecCodec == InitCodec /\ [][NextCodec]_vars


\* ------------------------------------------------------------------ claims
Finishes(i) == tasks[i].pc # "free" /\ tasks'[i].pc = "free"
Dispatched(i) == tasks[i].pc = "free" /\ tasks'[i].pc # "free"
InMessageHandler(t) == t.pc # "free" /\ t.text # "/start"
\* the reply `tag` was handed to ctx.reply by the handler of t, which is about to return
Replied(t, tag) == tag \in t.sent \/ t.pc = tag
\* the balance was queried and the amount compared with it
Exceeds(t) == t.balance >= 0 /\ ~t.amount.nan /\ t.amount.val > t.balance
Covered(t) == t.balance >= 0 /\ ~t.amount.nan /\ t.amount.val <= t.balance

\* C1: whenever the handler of a text message received in AwaitingAmount
\* finishes, the user's conversation state is Idle.
C1_AmountEndsIdle ==
  [][\A i \in Slots :
       (Finishes(i) /\ InMessageHandler(tasks[i]) /\ AwaitingAmount(tasks[i].us))
         => Idle(userStates'[tasks[i].user])]_vars

\* C2: whenever the handler of a text equal to "eth" ignoring case, received in
\* AwaitingAsset(Sell), finishes, the rejection reply was sent and the state
\* is Idle; and while it runs the state is never AwaitingAmount.
C2_SellEthEndsIdle ==
  [][\A i \in Slots :
       LET t == tasks[i]
       IN (InMessageHandler(t) /\ AwaitingAsset(t.us) /\ TypeOf(t.us) = "sell"
           /\ toLowerCase(t.text) = "eth")
            => /\ ~AwaitingAmount(userStates'[t.user])
               /\ Finishes(i) => (Replied(t, "rejectEth") /\ Idle(userStates'[t.user]))]_vars

C4_ExceedsBalanceRejected ==
  [][\A i \in Slots :
       (Finishes(i) /\ Exceeds(tasks[i]))
         => /\ tasks[i].ntrades = 0
            /\ Replied(tasks[i], "rejectAmount")
            /\ Idle(userStates'[tasks[i].user])]_vars

\* C5: whenever the handler of an amount that does not exceed the queried
\* balance finishes, it has called createTrade exactly once, and the state is
\* cleared; the intent it submits carries the entered amount, from ETH to the
\* flow's asset for a Buy and from the asset to ETH for a Sell.
C5_OneTradeSubmitted ==
  [][\A i \in Slots :
       LET t == tasks[i]
           buy == TypeOf(t.us) = "buy"
       IN /\ (Finishes(i) /\ Covered(t))
               => (t.ntrades = 1 /\ Idle(userStates'[t.user]))
          /\ (t.pc = "createTrade" /\ tasks'[i].pc # "createTrade")
               => trades' = trades \cup
                    {[user |-> t.user, amount |-> Decimal(t.text),
                      fromAssetId |-> IF buy THEN "eth" ELSE t.us.asset,
                      toAssetId |-> IF buy THEN t.us.asset ELSE "eth"]}]_vars

\* C6: createTrade is never called with a negative or NaN amount.
C6_NoNegativeTrade ==
  \A tr \in trades : ~tr.amount.nan /\ tr.amount.val >= 0

\* C7: a getOrCreateAddress call that starts after an earlier call for the
\* same user returned, and returns itself, returns the same address, and it
\* creates no wallet and writes no record.
C7_SameAddressTwice ==
  \A i \in Slots :
    LET t == tasks[i]
    IN (t.pc # "free" /\ t.prior # NoAddr)
         => /\ ~t.madeWallet /\ ~t.wrote
            /\ t.outcome = "returned" => t.userAddress = t.prior
\* the second call found the cache cleared and imported the persisted record
\* that the first call had written
C7_Witness ==
  \E i \in Slots :
    /\ tasks[i].prior # NoAddr /\ tasks[i].outcome = "returned"
    /\ tasks[i].read = "found" /\ created > NumUsers

\* C8: a call creates a wallet or writes a record only when its read of the
\* record ended not-found; when decryption, parsing, import or the read fails
\* otherwise, the call throws, having created no wallet and written no record.
C8_CreateOnlyOnNotFound ==
  \A i \in Slots :
    LET t == tasks[i]
    IN /\ (t.madeWallet \/ t.wrote \/ t.pc \in {"walletCreate", "dbPut"})
            => t.read = "not_found"
       /\ t.read \in {"decrypt_error", "parse_error", "import_error", "store_error"}
            => (t.outcome = "threw" /\ ~t.madeWallet /\ ~t.wrote)
\* a record exists, its decryption failed and the call threw
C8_Witness ==
  \E i \in Slots :
    /\ tasks[i].read = "decrypt_error" /\ tasks[i].outcome = "threw"
    /\ db[tasks[i].user] # NoDoc /\ encKey = "valid"

C10_UnhandledErrorClears ==
  [][\A i \in Slots :
       (Finishes(i) /\ tasks[i].pc = "messageCatch")
         => Idle(userStates'[tasks[i].user])]_vars

\* C11: in every state a user's state with a step or an asset has exactly one
\* of buyRequested and sellRequested set, however the handlers of the user
\* interleave.
C11_StepImpliesOperation ==
  \A u \in Users :
    LET s == userStates[u]
    IN (s.step # "none" \/ s.asset # "none") => (s.buyRequested # s.sellRequested)
\* sendReply's write of lastMessageId arrived after another handler had
\* cleared the state the writing handler had started in
C11_Witness ==
  \E i \in Slots :
    /\ tasks[i].pc = "createTrade" /\ "initiating" \in tasks[i].sent
    /\ AwaitingAmount(tasks[i].us)
    /\ ~InFlow(userStates[tasks[i].user])
    /\ userStates[tasks[i].user].lastMessageId # 0

\* the await points at which the handler is inside sendReply
SendReplyPcs == {"askAsset", "askAmount", "initiating", "tradeSuccess", "balances",
                 "depositNote", "depositPrompt", "depositAddress"}
\* C12: an update of a user's state changes the fields it sets and no other,
\* whatever other handlers of the user wrote since the updating handler read
\* the state: the late write of the address changes only the address, the
\* late write of sendReply only lastMessageId (unless the state is cleared in
\* the same step), and the updates a handler makes on arrival leave both alone.
C12_NoLostUpdate ==
  [][\A i \in Slots :
       LET t == IF tasks[i].pc = "free" THEN tasks'[i] ELSE tasks[i]
           s == userStates[t.user]
           n == userStates'[t.user]
           Kept(fs) == \A f \in fs : n[f] = s[f]
       IN tasks'[i] # tasks[i]
            => /\ tasks[i].pc \in {"walletImport", "dbPut"} => Kept(Fields \ {"address"})
               /\ tasks[i].pc \in SendReplyPcs =>
                    (n = EmptyState \/ Kept(Fields \ {"lastMessageId"}))
               /\ Dispatched(i) => Kept({"address", "lastMessageId"})]_vars
\* "Buy" set the step and, while its reply was pending, "pepe" set the asset;
\* then the reply of "Buy" was tracked: the state holds all three writes
C12_Witness ==
  \E i \in Slots :
    LET s == userStates[tasks[i].user]
    IN /\ tasks[i].pc = "askAmount" /\ tasks[i].us.lastMessageId = 0
       /\ tasks[i].us.buyRequested /\ tasks[i].us.step = "asset"
       /\ s.buyRequested /\ s.step = "amount" /\ s.asset = "pepe" /\ s.lastMessageId # 0

\* C13: a user's credential record, once there, is never changed: it is
\* written at most once, and no later operation changes its nonce or ciphertext.
C13_RecordWrittenOnce ==
  [][\A u \in Users : db[u] # NoDoc => db'[u] = db[u]]_vars
\* two calls for a user without a record both created a wallet; one wrote its
\* record and returned, the put of the other was refused and the call threw
C13_Witness ==
  \E i, j \in Slots :
    /\ i # j /\ tasks[i].user = tasks[j].user
    /\ tasks[i].wrote /\ tasks[i].outcome = "returned" /\ db[tasks[i].user] = tasks[i].doc
    /\ tasks[j].madeWallet /\ tasks[j].doc # NoDoc /\ tasks[j].doc # tasks[i].doc
    /\ ~tasks[j].wrote /\ tasks[j].outcome = "threw"

\* the default address of the wallet in the user's persisted record
RecordAddress(u) ==
  IF db[u] = NoDoc THEN NoAddr
  ELSE LET iv == fromHex(db[u].ivString)
           data == db[u].encryptedWalletData
       IN IF decryptThrows(data, iv) THEN NoAddr
          ELSE IF ParseThrows(decrypt(data, iv)) THEN NoAddr
          ELSE DefaultAddress(Parse(decrypt(data, iv)))
\* C19: every address a getOrCreateAddress call has returned, and the address
\* cached in the user's state, is the default address of the wallet in the
\* user's persisted record, however the calls for the user interleave.
C19_ReturnedIsPersisted ==
  /\ \A u \in Users :
        /\ returned[u] # NoAddr => returned[u] = RecordAddress(u)
        /\ userStates[u].address # NoAddr => userStates[u].address = RecordAddress(u)
  /\ \A i \in Slots :
        tasks[i].outcome = "returned" => tasks[i].userAddress = RecordAddress(tasks[i].user)
\* two calls raced and each created a wallet: one has persisted its wallet
\* and returned its address while the other still holds a wallet of its own
C19_Witness ==
  \E i, j \in Slots :
    /\ i # j /\ tasks[i].user = tasks[j].user
    /\ tasks[i].wrote /\ tasks[i].outcome = "returned"
    /\ tasks[i].userAddress = DefaultAddress(tasks[i].wallet)
    /\ tasks[j].pc = "dbPut" /\ tasks[j].wallet # tasks[i].wallet

\* C14: with an encryption key that is present but malformed or of the wrong
\* size the process stops at startup: no handler ever runs, and no encrypt or
\* decrypt call fails while a user is served.
C14_MalformedKeyStopsStartup ==
  encKey = "malformed" =>
    \A i \in Slots : tasks[i].pc = "free" /\ tasks[i].read # "decrypt_error"

\* C15: while the task of one user is suspended in trade.wait(), a message of
\* another user who has one to send is taken by its handler.
C15_SettlementDoesNotBlock ==
  \A i \in Slots, u \in Users :
    (tasks[i].pc = "tradeWait" /\ u # tasks[i].user /\ budget[u] > 0)
      => ENABLED MessageText(u, "Buy")

\* C16 as stated: under a valid key, every plaintext comes back from
\* decrypt(encrypt(P, iv), iv) unchanged, for every nonce.
C16_RoundTrip ==
  encKey = "valid" =>
    /\ codec.pc # "threw"
    /\ codec.pc = "decrypted" => codec.decrypted = codec.text
\* a string every code unit of which has a UTF-8 form
WellFormed(text) == \A k \in DOMAIN text : text[k] # Surrogate
\* C16 as amended: the round trip returns every plaintext that is a
\* well-formed Unicode string, as the output of JSON.stringify is.
C16_RoundTripWellFormed ==
  (encKey = "valid" /\ WellFormed(codec.text)) =>
    /\ codec.pc # "threw"
    /\ codec.pc = "decrypted" => codec.decrypted = codec.text
\* a text of full length, ending in the symbol the padding uses, came back
\* under a nonce other than zero
C16_Witness ==
  /\ codec.pc = "decrypted" /\ codec.decrypted = codec.text
  /\ Len(codec.text) = MaxLen /\ codec.text[MaxLen] = Pad /\ codec.text[1] = Replacement
  /\ codec.iv # 0

\* the operation, step and asset of a conversation state
FlowOf(s) == <<s.buyRequested, s.sellRequested, s.step, s.asset>>
C18_OneTradePerFlow ==
  /\ \A u \in Users : submitted[u] <= 1
  /\ \A i, j \in Slots :
        (i # j /\ tasks[i].pc = "tradeWait" /\ tasks[j].pc = "tradeWait")
          => tasks[i].user # tasks[j].user

\* C20: buyRequested and sellRequested are never both set, and a "Buy" or
\* "Sell" text that arrives while a flow is active goes to executeTrade as the
\* asset or the amount: it leaves the two flags as they are and the handler
\* does not ask for an asset.
C20_DirectionIsFixed ==
  [][/\ \A u \in Users : ~(userStates'[u].buyRequested /\ userStates'[u].sellRequested)
     /\ \A i \in Slots :
          LET t == tasks'[i]
              u == t.user
          IN (Dispatched(i) /\ t.text \in {"Buy", "Sell"} /\ InFlow(userStates[u]))
               => /\ userStates'[u].buyRequested = userStates[u].buyRequested
                  /\ userStates'[u].sellRequested = userStates[u].sellRequested
                  /\ t.pc \in {"askAmount", "executeTradeCatch"}]_vars
\* "Sell" arrived while the handler of "Buy" was still sending its prompt and
\* became the asset of the Buy flow
C20_Witness ==
  \E i, j \in Slots :
    LET s == userStates[tasks[i].user]
    IN /\ i # j /\ tasks[i].user = tasks[j].user
       /\ tasks[i].pc = "askAsset" /\ tasks[i].text = "Buy"
       /\ tasks[j].pc = "askAmount" /\ tasks[j].text = "Sell"
       /\ s.buyRequested /\ ~s.sellRequested /\ s.asset = "sell" /\ s.step = "amount"

====
